---- MODULE Spec2Model ----
(***************************************************************************)
(* Risk-Free Hedge Visualizer (src/app.py): a Streamlit script that keeps  *)
(* a list of option legs in the session state, computes the expiration     *)
(* P&L curve and the net cash of the list, and shows a trade log with a    *)
(* running total.                                                          *)
(*                                                                         *)
(* Arithmetic.  The script computes in binary floating point; the model    *)
(* computes exactly, in integers, and nothing in it rounds:                *)
(*   - cash (Price, Fees, net cash flows, net cash, the trade log) is      *)
(*     counted in ticks of $0.05, the step of the Price and Fees inputs:   *)
(*     $0.65 is 13, $2.00 is 40, -$200.65 is -4013;                        *)
(*   - a price of the underlying (Strike, the current price, a quote) is   *)
(*     counted in cents: $100 is 10000, $100.05 is 10005;                  *)
(*   - the upper bound of a grid (spot_range_max, max_strike * 1.5,        *)
(*     curr_price * 1.1) is counted in mils, tenths of a cent, so that     *)
(*     * 1.5 and * 1.1 of any number of cents are whole: $150 is 150000;   *)
(*   - a point of a spot grid is counted in 1/Den of a mil, Den = 999      *)
(*     being the number of intervals of the 1000-point grid, so that       *)
(*     point i of linspace(0, stop, 1000), i * stop / 999, is i * stop;    *)
(*   - a value of the P&L curve is counted in 1/Den of a tick.             *)
(* Where a rounding of the script decides what it does or returns, the    *)
(* double is modelled bit for bit:                                         *)
(*   - max_strike * 1.5 can lie one unit in the last place below or above  *)
(*     the double of the same decimal number, and the script compares the  *)
(*     current price with it; the result carries that sign next to the     *)
(*     exact grid, as spots_end_rounding;                                  *)
(*   - the cash amounts (a leg's net cash flow, the net cash, the rows of  *)
(*     the trade log) and the first point of the P&L curve, at spot 0, are *)
(*     sums and products of decimal amounts; each is the pair of the       *)
(*     decimal number, in cents, and the distance of the double from it,   *)
(*     so that the order of a sum shows in the result as it does in the    *)
(*     script.                                                             *)
(* The other points of the grid and of the curve, i * stop / 999, are the  *)
(* real numbers the doubles approximate.                                   *)
(***************************************************************************)
EXTENDS Integers, Sequences, FiniteSets

VARIABLES
    legs,           \* st.session_state.legs
    ss_curr_price,  \* st.session_state['curr_price'], or Absent
    curr_price,     \* value of the "Current Price" number input in the last run
    event,          \* the widget interaction that triggered the last run
    sidebar_error,  \* message of st.sidebar.error in the last run, "" if none
    net_cash,       \* value shown by st.metric in the last run
    chart,          \* what the last run plotted, or NoChart
    trade_log,      \* rows (Net Cash, Running Total) of the last run's trade log
    call,           \* a direct call of calculate_payoff: its arguments
    ret             \* ... and what it returned, or NotCalled

vars == <<legs, ss_curr_price, curr_price, event, sidebar_error, net_cash,
          chart, trade_log, call, ret>>

appVars == <<legs, ss_curr_price, curr_price, event, sidebar_error, net_cash,
             chart, trade_log>>

-----------------------------------------------------------------------------
(* Bounds and input sets *)

MaxLegs == 2

\* the longest list of legs of a direct call
MaxCallLegs == 3

num == 1000

Den == num - 1

\* $200, in mils
default_spot_range_max == 200000

\* $100, in cents
no_strikes_max_strike == 10000

Qty_min_value == 1

\* Units: mils in a cent and in a tick, grid units in a cent.
MilsPerCent == 10

CentsPerTick == 5

MilsPerTick == CentsPerTick * MilsPerCent

SpotsPerCent == MilsPerCent * Den

\* An optional value is a sequence of length 0 or 1.
Absent == <<>>

Some(x) == <<x>>

NoChart == <<>>

NotCalled == <<>>

NoArg == <<>>

Sell_to_Open == <<"Sell", "to", "Open">>

Buy_to_Open == <<"Buy", "to", "Open">>

Buy_to_Close == <<"Buy", "to", "Close">>

Sell_to_Close == <<"Sell", "to", "Close">>

ActionOptions == {Sell_to_Open, Buy_to_Open, Buy_to_Close, Sell_to_Close}

TypeOptions == {"Put", "Call"}

-----------------------------------------------------------------------------
(* Doubles near decimal amounts *)

\* The binary exponent of the double of n cents, n > 0:
\* 2^e <= n / 100 < 2^(e + 1).
RECURSIVE float_exponent(_)
float_exponent(n) ==
    IF n >= 200 THEN float_exponent(n \div 2) + 1
    ELSE IF n < 100 THEN float_exponent(n * 2) - 1
    ELSE 0

\* 2^k modulo m, without a power beyond 2^30
RECURSIVE pow2mod(_, _)
pow2mod(k, m) ==
    IF k <= 30 THEN (2^k) % m ELSE ((2^30 % m) * pow2mod(k - 30, m)) % m

\* Round-to-nearest-even of base + low / den to a multiple of step, base
\* being a multiple of step whose quotient is odd iff base_odd; the result
\* is given as its distance from base.
round_half_even(low, den, step, base_odd) ==
    LET unit == step * den
        m == low \div unit
        rem == low - m * unit
        m_odd == (m % 2 = 1) # base_odd
        up == 2 * rem > unit \/ (2 * rem = unit /\ m_odd)
    IN  (IF up THEN m + 1 ELSE m) * step

pow2(k) == 2^k

\* A double x near an amount of c cents is the record of c and of
\* err = (x - c / 100) * 100 * 2^59, a whole number: the doubles of the
\* script are multiples of 2^-59.  Amounts stay below 2^16 dollars.
Zero == [cents |-> 0, err |-> 0]

\* The double nearest to c / 100 + e / (100 * 2^59), ties to even: the
\* result of one floating-point operation whose exact result that is.  With
\* E the exponent of the value and A = c * 2^(52 - E) = 100 * a + rho, the
\* value is a + (rho * 2^(E + 7) + e) / (100 * 2^(E + 7)) units in the last
\* place; scale is 2^(E + 7) and A is taken modulo 200, which keeps rho and
\* the parity of a.
round_to_double(c, e, scale, A) ==
    [cents |-> c,
     err |-> round_half_even((A % 100) * scale + e, 1, 100 * scale, A >= 100)
             - (A % 100) * scale]

round_at_exponent(c, e, E) ==
    round_to_double(c, e, pow2(E + 7), ((c % 200) * pow2mod(52 - E, 200)) % 200)

\* c / 100 is a power of two, 2^e0
power_of_two(c, e0) ==
    IF e0 >= 0 THEN c = 100 * pow2(e0) ELSE c * pow2(-e0) = 100

\* the exponent of c / 100 + e / (100 * 2^59), c > 0, from that of c / 100
exponent_with_err(c, e, e0) ==
    IF power_of_two(c, e0) /\ e < 0 THEN e0 - 1 ELSE e0

negative(x) == [cents |-> -x.cents, err |-> -x.err]

\* A value with no cents is below 2^-28 and a multiple of 2^-59, a double
\* itself.
RECURSIVE nearest_double(_, _)
nearest_double(c, e) ==
    IF c = 0 THEN [cents |-> 0, err |-> e]
    ELSE IF c < 0 THEN negative(nearest_double(-c, -e))
    ELSE round_at_exponent(c, e, exponent_with_err(c, e, float_exponent(c)))

\* float(c / 100): the double of a decimal literal or of a widget's value
float(c) == nearest_double(c, 0)

\* x * k for an int k
float_mul(x, k) == nearest_double(x.cents * k, x.err * k)

float_add(x, y) == nearest_double(x.cents + y.cents, x.err + y.err)

float_sub(x, y) == nearest_double(x.cents - y.cents, x.err - y.err)

float_maximum(x, y) ==
    IF x.cents > y.cents \/ (x.cents = y.cents /\ x.err >= y.err) THEN x ELSE y

-----------------------------------------------------------------------------
(* calculate_payoff *)

\* np.linspace(start, stop, n)[i - 1] = start + (i - 1) * (stop - start) / (n - 1),
\* here in 1/(n - 1) of a tick.
linspace(start, stop, n) ==
    [i \in 1..n |-> start * (n - 1) + (i - 1) * (stop - start)]

zeros_like(a) == [i \in DOMAIN a |-> 0]

maximum(x, y) == IF x >= y THEN x ELSE y

Contains(word, action) == \E i \in DOMAIN action : action[i] = word

\* A variant that reads the position direction off the cash-flow flag.
pos_direction_from_sell(leg) == IF Contains("Sell", leg.Action) THEN 1 ELSE -1

pos_direction(leg) == IF Contains("Buy", leg.Action) THEN 1 ELSE -1

direction_mult(leg) == IF Contains("Sell", leg.Action) THEN 1 ELSE -1

\* (leg['Price'] * 100 * leg['Qty'] * direction_mult) - leg['Fees']
net_cash_flow(leg) ==
    float_sub(float_mul(float_mul(float_mul(float(leg.Price * CentsPerTick), 100),
                                  leg.Qty),
                        direction_mult(leg)),
              float(leg.Fees * CentsPerTick))

intrinsic(leg, spot_range) ==
    IF leg.Type = "Call"
    THEN [i \in DOMAIN spot_range |->
             maximum(spot_range[i] - leg.Strike * SpotsPerCent, 0)]
    ELSE [i \in DOMAIN spot_range |->
             maximum(leg.Strike * SpotsPerCent - spot_range[i], 0)]

\* intrinsic is in 1/Den mil and the P&L in 1/Den tick, so the factor 100
\* of the script is 100 / MilsPerTick here.
leg_pnl(leg, spot_range, ncf) ==
    LET intr == intrinsic(leg, spot_range)
        d == pos_direction(leg) * leg.Qty * (100 \div MilsPerTick)
        ticks == (ncf.cents \div CentsPerTick) * Den
    IN  [i \in DOMAIN spot_range |-> intr[i] * d + ticks]

\* The same two lines at the first point of the grid, spot 0.0, in doubles.
intrinsic_first(leg) ==
    IF leg.Type = "Call"
    THEN float_maximum(float_sub(Zero, float(leg.Strike)), Zero)
    ELSE float_maximum(float_sub(float(leg.Strike), Zero), Zero)

leg_pnl_first(leg, ncf) ==
    float_add(float_mul(float_mul(float_mul(intrinsic_first(leg), pos_direction(leg)),
                                  leg.Qty),
                        100),
              ncf)

RECURSIVE max(_)
max(s) ==
    IF Len(s) = 1 THEN s[1]
    ELSE LET m == max(Tail(s)) IN IF s[1] >= m THEN s[1] ELSE m

\* A variant that takes the first leg's strike for the largest.
first_strike(ls) == ls[1].Strike

max_strike(ls) ==
    LET strikes == [i \in DOMAIN ls |-> ls[i].Strike]
    IN  IF strikes # <<>> THEN max(strikes) ELSE no_strikes_max_strike

\* x * 1.5 and x * 1.1 of x cents, in mils
Times15(x) == x * 15

Times11(x) == x * 11

\* max_strike * 1.5 in binary floating point, for a strike of n cents whose
\* 1.5-fold is a whole number c of cents: the sign of
\*     float(n / 100) * 1.5  -  float(c / 100),
\* -1 when the product is the double just below the double of c / 100.
\* With float(n / 100) = M * 2^-k, 2^52 <= M < 2^53, and n * 2^k = 100 * M + r,
\* the product is 3 * M and c / 100 is 3 * M + 3 * r / 100 in units of
\* 2^-(k + 1); both are rounded to multiples of 2^d, d the one or two bits
\* that 3 * M has beyond 53.  Only the low bits of M are needed, so M is
\* computed modulo 8.  A 1.5-fold that is no whole number of cents equals no
\* price in cents, and the sign is given as 0.
RECURSIVE Times15_rounding(_)
Times15_rounding(n) ==
    IF n = 0 \/ n % 2 = 1 THEN 0
    ELSE IF n < 0 THEN -Times15_rounding(-n)
    ELSE LET e == float_exponent(n)
             k == 52 - e
             d == 1 + float_exponent(n + n \div 2) - e
             step == IF d = 1 THEN 2 ELSE 4
             R == ((n % 800) * pow2mod(k, 800)) % 800
             r0 == R % 100
             r == IF r0 < 50 THEN r0
                  ELSE IF r0 > 50 THEN r0 - 100
                  ELSE IF ((R - 50) \div 100) % 2 = 0 THEN 50 ELSE -50
             M == ((R - r) % 800) \div 100
             P == (3 * M) % 8
             q == P % step
             base_odd == (P \div step) % 2 = 1
             product == round_half_even(q, 1, step, base_odd)
             decimal == round_half_even(q * 100 + 3 * r, 100, step, base_odd)
         IN  IF product < decimal THEN -1
             ELSE IF product > decimal THEN 1 ELSE 0

\* a > b for a price a in cents and the last point b of a grid
float_gt_last(a, grid) ==
    LET last == grid.spots[Len(grid.spots)]
    IN  \/ a * SpotsPerCent > last
        \/ a * SpotsPerCent = last /\ grid.spots_end_rounding < 0

\* total_pnl += leg_pnl
add_curve(total_pnl, lp) == [i \in DOMAIN total_pnl |-> total_pnl[i] + lp[i]]

\* for leg in legs: total_net_cash += ...; total_pnl += ...
RECURSIVE payoff_loop(_, _, _, _, _, _)
RECURSIVE payoff_leg(_, _, _, _, _, _, _)
payoff_loop(ls, spot_range, end_rounding, total_pnl, total_pnl_first, total_net_cash) ==
    IF ls = <<>>
    THEN [pnl |-> total_pnl, pnl_first |-> total_pnl_first,
          spots |-> spot_range, spots_end_rounding |-> end_rounding,
          net_cash |-> total_net_cash]
    ELSE payoff_leg(ls, spot_range, end_rounding, total_pnl, total_pnl_first,
                    total_net_cash, net_cash_flow(Head(ls)))

\* the body of the loop for leg = Head(ls), with its net_cash_flow
payoff_leg(ls, spot_range, end_rounding, total_pnl, total_pnl_first, total_net_cash, ncf) ==
    payoff_loop(Tail(ls), spot_range, end_rounding,
                add_curve(total_pnl, leg_pnl(Head(ls), spot_range, ncf)),
                float_add(total_pnl_first, leg_pnl_first(Head(ls), ncf)),
                float_add(total_net_cash, ncf))

\* A variant without the early return for an empty list of legs.
calculate_payoff_without_early_return(ls, spot_range_max) ==
    LET spot_range == linspace(0, Times15(max_strike(ls)), num)
    IN  payoff_loop(ls, spot_range, Times15_rounding(max_strike(ls)),
                    zeros_like(spot_range), Zero, Zero)

\* np.linspace ends at its stop itself: spot_range_max as it was passed, or
\* the double max_strike * 1.5.
calculate_payoff(ls, spot_range_max) ==
    IF ls = <<>>
    THEN LET spot_range == linspace(0, spot_range_max, num)
         IN  [pnl |-> zeros_like(spot_range), pnl_first |-> Zero,
              spots |-> spot_range, spots_end_rounding |-> 0,
              net_cash |-> Zero]
    ELSE LET spot_range == linspace(0, Times15(max_strike(ls)), num)
         IN  payoff_loop(ls, spot_range, Times15_rounding(max_strike(ls)),
                         zeros_like(spot_range), Zero, Zero)

-----------------------------------------------------------------------------
(* The script, top to bottom: one run per widget interaction *)

Leg(qty, action, opt_type, strike, exp_date, price, fees, notes) ==
    [Qty |-> qty, Action |-> action, Type |-> opt_type, Strike |-> strike,
     Exp_Date |-> exp_date, Price |-> price, Fees |-> fees, Leg_Notes |-> notes]

\* A variant that inserts the new leg in front.
PrependLeg(ls, new_leg) == <<new_leg>> \o ls

AppendLeg(ls, new_leg) == Append(ls, new_leg)

ClearAll(ls) == <<>>

session_get(ss) == IF ss = Absent THEN 0 ELSE ss[1]

\* st.sidebar.number_input("Current Price", value=default): a widget without a
\* key is identified by its label and arguments, so it keeps the value it
\* holds while the default stays the same and shows the new default otherwise.
number_input(old_default, new_default, held) ==
    IF new_default = old_default THEN held ELSE new_default

\* st.session_state['curr_price'] = round(price, 2): a whole number of cents,
\* as the prices drawn are.
QuoteFound(ss, price) == Some(price)

\* A variant in which a failed retrieval drops the session's price.
QuoteFailedDropsPrice(ss) == Absent

QuoteFailed(ss) == ss

\* st.metric and fig.add_trace / fig.add_vline of the result that is shown
shown(final, out_of_bounds, cp) ==
    [net_cash |-> final.net_cash,
     chart |-> Some([spots |-> final.spots, pnl |-> final.pnl,
                     pnl_first |-> final.pnl_first,
                     spots_end_rounding |-> final.spots_end_rounding,
                     regrid |-> out_of_bounds, marker |-> cp > 0])]

\* if curr_price > spots[-1]: the payoff is computed again
recalc(ls, cp, first, out_of_bounds) ==
    shown(IF out_of_bounds THEN calculate_payoff(ls, Times11(cp)) ELSE first,
          out_of_bounds, cp)

first_calc(ls, cp, first) == recalc(ls, cp, first, float_gt_last(cp, first))

main_dashboard(ls, cp) ==
    IF ls # <<>>
    THEN first_calc(ls, cp, calculate_payoff(ls, default_spot_range_max))
    ELSE [net_cash |-> Zero, chart |-> NoChart]

\* A variant that leaves the fees out of a row's net cash.
get_cf_without_fees(row) ==
    LET d == IF Contains("Sell", row.Action) THEN 1 ELSE -1
    IN  float_mul(float_mul(float_mul(float(row.Price * CentsPerTick), 100),
                            row.Qty),
                  d)

get_cf(row) ==
    LET d == IF Contains("Sell", row.Action) THEN 1 ELSE -1
    IN  float_sub(float_mul(float_mul(float_mul(float(row.Price * CentsPerTick),
                                                100),
                                      row.Qty),
                            d),
                  float(row.Fees * CentsPerTick))

RECURSIVE cumsum(_)
cumsum(s) ==
    IF s = <<>> THEN <<>>
    ELSE LET before == cumsum(SubSeq(s, 1, Len(s) - 1))
         IN  IF before = <<>> THEN <<s[1]>>
             ELSE Append(before, float_add(before[Len(before)], s[Len(s)]))

col_table(ls) ==
    IF ls # <<>>
    THEN LET cf == [i \in DOMAIN ls |-> get_cf(ls[i])]
             total == cumsum(cf)
         IN  [i \in DOMAIN ls |-> [Net_Cash |-> cf[i], Running_Total |-> total[i]]]
    ELSE <<>>

\* The filled forms a user submits: qty, action, opt_type, strike, exp_date,
\* price, fees, notes.  The Strike input has no minimum, so a form may hold
\* a zero strike; the last form holds a quantity the Qty input does not take.
Form(qty, action, opt_type, strike, price, fees) ==
    [qty |-> qty, action |-> action, opt_type |-> opt_type, strike |-> strike,
     exp_date |-> "2026-10-30", price |-> price, fees |-> fees, notes |-> ""]

FormInputs ==
    { Form(1, Buy_to_Open, "Call", 10000, 40, 13),
      Form(1, Sell_to_Open, "Put", 5000, 20, 13),
      Form(2, Sell_to_Close, "Call", 0, 30, 13),
      Form(2, Buy_to_Close, "Put", 10010, 20, 0),
      Form(0, Sell_to_Open, "Put", 5000, 30, 13) }

QuoteResults == {10025}

CurrentPriceInputs == {15015}

\* curr_price = st.sidebar.number_input("Current Price", value=...get('curr_price', 0.0))
CurrentPriceInput ==
    curr_price' = number_input(session_get(ss_curr_price),
                               session_get(ss_curr_price'), curr_price)

\* Section 4 of the script, which every run executes after the sidebar.
MainDashboard ==
    LET d == main_dashboard(legs', curr_price')
    IN  /\ net_cash' = d.net_cash
        /\ chart' = d.chart
        /\ trade_log' = col_table(legs')
        /\ UNCHANGED <<call, ret>>

GetLivePriceFound(price) ==
    /\ event' = "quote_found"
    /\ ss_curr_price' = QuoteFound(ss_curr_price, price)
    /\ sidebar_error' = ""
    /\ CurrentPriceInput
    /\ UNCHANGED legs
    /\ MainDashboard

GetLivePriceEmpty ==
    /\ event' = "quote_empty"
    /\ ss_curr_price' = QuoteFailed(ss_curr_price)
    /\ sidebar_error' = "Symbol not found."
    /\ CurrentPriceInput
    /\ UNCHANGED legs
    /\ MainDashboard

GetLivePriceError ==
    /\ event' = "quote_error"
    /\ ss_curr_price' = QuoteFailed(ss_curr_price)
    /\ sidebar_error' = "Error fetching data."
    /\ CurrentPriceInput
    /\ UNCHANGED legs
    /\ MainDashboard

\* symbol = st.sidebar.text_input("Symbol", ...): an edit reruns the script
\* with no button pressed.  The text only feeds the title and the lookup of
\* Get Live Price, whose result is drawn at the button, so it is no variable.
EditSymbol ==
    /\ event' = "edit_symbol"
    /\ sidebar_error' = ""
    /\ UNCHANGED <<ss_curr_price, legs>>
    /\ CurrentPriceInput
    /\ MainDashboard

EditCurrentPrice(v) ==
    /\ v # curr_price
    /\ event' = "edit_price"
    /\ sidebar_error' = ""
    /\ curr_price' = v
    /\ UNCHANGED <<ss_curr_price, legs>>
    /\ MainDashboard

AddLeg(qty, action, opt_type, strike, exp_date, price, fees, notes) ==
    /\ Len(legs) < MaxLegs
    /\ qty >= Qty_min_value
    /\ event' = "add_leg"
    /\ sidebar_error' = ""
    /\ UNCHANGED ss_curr_price
    /\ CurrentPriceInput
    /\ legs' = AppendLeg(legs, Leg(qty, action, opt_type, strike, exp_date,
                                    price, fees, notes))
    /\ MainDashboard

ResetClearAll ==
    /\ event' = "reset"
    /\ sidebar_error' = ""
    /\ UNCHANGED ss_curr_price
    /\ CurrentPriceInput
    /\ legs' = ClearAll(legs)
    /\ MainDashboard

Init ==
    /\ legs = <<>>
    /\ ss_curr_price = Absent
    /\ curr_price = 0
    /\ event = "open"
    /\ sidebar_error = ""
    /\ net_cash = Zero
    /\ chart = NoChart
    /\ trade_log = <<>>
    /\ call = [legs |-> <<>>, spot_range_max |-> NoArg]
    /\ ret = NotCalled

Next ==
    \/ EditSymbol
    \/ \E price \in QuoteResults : GetLivePriceFound(price)
    \/ GetLivePriceEmpty
    \/ GetLivePriceError
    \/ \E v \in CurrentPriceInputs : EditCurrentPrice(v)
    \/ \E f \in FormInputs :
          AddLeg(f.qty, f.action, f.opt_type, f.strike, f.exp_date, f.price,
                 f.fees, f.notes)
    \/ ResetClearAll

Spec == Init /\ [][Next]_vars

-----------------------------------------------------------------------------
(* calculate_payoff called directly, on a bounded set of arguments *)

LegOf(f) ==
    Leg(f.qty, f.action, f.opt_type, f.strike, f.exp_date, f.price, f.fees, f.notes)

CallLegs ==
    {LegOf(f) : f \in {g \in FormInputs : g.qty >= Qty_min_value}}
    \cup {LegOf(Form(3, Sell_to_Open, "Call", 5001, 30, 13))}

\* the lists of up to n different legs of S
SeqsUpTo(S, n) ==
    UNION {{ls \in [1..k -> S] : \A i, j \in 1..k : ls[i] = ls[j] => i = j} :
           k \in 0..n}

SpotRangeMaxArgs == {NoArg, Some(220000), Some(100000)}

\* def calculate_payoff(legs, spot_range_max=200)
bind_spot_range_max(arg) ==
    IF arg = NoArg THEN default_spot_range_max ELSE arg[1]

InitCalc ==
    /\ legs = <<>>
    /\ ss_curr_price = Absent
    /\ curr_price = 0
    /\ event = "open"
    /\ sidebar_error = ""
    /\ net_cash = Zero
    /\ chart = NoChart
    /\ trade_log = <<>>
    /\ call \in [legs : SeqsUpTo(CallLegs, MaxCallLegs), spot_range_max : SpotRangeMaxArgs]
    /\ ret = NotCalled

Call ==
    /\ ret = NotCalled
    /\ ret' = Some(calculate_payoff(call.legs, bind_spot_range_max(call.spot_range_max)))
    /\ UNCHANGED <<call, appVars>>

NextCalc == Call

SpecCalc == InitCalc /\ [][NextCalc]_vars

-----------------------------------------------------------------------------
(* The data model the properties are stated in: the closed set of actions  *)
(* with a lookup of sign and position direction, and the per-leg formulas. *)

Sign(action) ==
    CASE action = Sell_to_Open -> 1
      [] action = Sell_to_Close -> 1
      [] action = Buy_to_Open -> -1
      [] action = Buy_to_Close -> -1

PositionDirection(action) ==
    CASE action = Buy_to_Open -> 1
      [] action = Buy_to_Close -> 1
      [] action = Sell_to_Open -> -1
      [] action = Sell_to_Close -> -1

\* in ticks
NetCashFlow(leg) == leg.Price * 100 * leg.Qty * Sign(leg.Action) - leg.Fees

\* the amount of t ticks in cents, the unit of a double's decimal amount
Cents(t) == 5 * t

\* the double that is 0
IsZero(x) == x.cents = 0 /\ x.err = 0

\* two doubles of the same decimal amount: equal up to the rounding of the
\* operations that produced them
SameAmount(x, y) == x.cents = y.cents

Permuted(ls, p) == [i \in 1..Len(ls) |-> ls[p[i]]]

\* spot and the result in 1/Den of a mil, like the points of a grid
IntrinsicValue(leg, spot) ==
    LET strike == leg.Strike * 10 * Den
    IN  IF leg.Type = "Call"
        THEN (IF spot - strike > 0 THEN spot - strike ELSE 0)
        ELSE (IF strike - spot > 0 THEN strike - spot ELSE 0)

\* in 1/Den of a tick: a tick is 50 mils, so * 100 is * 2 here
LegPnl(leg, spot) ==
    IntrinsicValue(leg, spot) * PositionDirection(leg.Action) * leg.Qty * 2
    + NetCashFlow(leg) * Den

RECURSIVE SumLegPnl(_, _)
SumLegPnl(ls, spot) ==
    IF ls = <<>> THEN 0 ELSE LegPnl(Head(ls), spot) + SumLegPnl(Tail(ls), spot)

RECURSIVE SumNetCashFlow(_, _)
SumNetCashFlow(ls, i) ==
    IF i = 0 THEN 0 ELSE SumNetCashFlow(ls, i - 1) + NetCashFlow(ls[i])

RECURSIVE MaxStrike(_, _)
MaxStrike(ls, i) ==
    IF i = 1 THEN ls[1].Strike
    ELSE IF ls[i].Strike > MaxStrike(ls, i - 1) THEN ls[i].Strike
         ELSE MaxStrike(ls, i - 1)

ValidLegs(ls) == \A i \in DOMAIN ls : ls[i].Qty >= 1 /\ ls[i].Strike > 0

StrictlyIncreasing(s) == \A i \in 1..(Len(s) - 1) : s[i] < s[i + 1]

LegOrders(n) == {p \in [1..n -> 1..n] : \A i, j \in 1..n : p[i] = p[j] => i = j}

Called == ret # NotCalled

Returned == ret[1]

ExampleLongCall == LegOf(Form(1, Buy_to_Open, "Call", 10000, 40, 13))

-----------------------------------------------------------------------------
(* Properties *)

\* C1: for a non-empty portfolio (of legs the intake is to let in), a
\* supplied spot_range_max decides the last point of the returned grid (the
\* value itself, or the value scaled by 1.5 like the strike-derived bound);
\* without it the grid spans [0, max strike * 1.5].
C1_GridBoundFromSpotRangeMax ==
    (Called /\ call.legs # <<>> /\ ValidLegs(call.legs)) =>
        LET last == Returned.spots[Len(Returned.spots)]
            highest == MaxStrike(call.legs, Len(call.legs))
        IN  IF call.spot_range_max = NoArg
            THEN Returned.spots[1] = 0 /\ last = highest * 15 * Den
            ELSE last \in {call.spot_range_max[1] * Den,
                           ((call.spot_range_max[1] * 15) \div 10) * Den}

\* C2: every leg of the portfolio has qty >= 1 and strike > 0, because leg
\* intake rejects every other candidate.
C2_OnlyValidLegs == ValidLegs(legs)

\* C3: the trade log's running total of row i is the sum of the net cash
\* flows of legs 1..i in insertion order, and the last running total equals
\* the net cash calculate_payoff returned for the same portfolio: it is the
\* same double.
C3_RunningTotalMatchesNetCash ==
    legs # <<>> =>
        /\ Len(trade_log) = Len(legs)
        /\ \A i \in DOMAIN legs :
              /\ trade_log[i].Net_Cash.cents = Cents(NetCashFlow(legs[i]))
              /\ trade_log[i].Running_Total.cents = Cents(SumNetCashFlow(legs, i))
        /\ trade_log[Len(legs)].Running_Total = net_cash

C3_Witness ==
    /\ Len(legs) = 2
    /\ trade_log[1].Running_Total # trade_log[2].Running_Total
    /\ net_cash = trade_log[2].Running_Total
    /\ net_cash.cents # 0
    /\ net_cash.err # 0

\* C4, as the specification has it: calculate_payoff returns an identical
\* P&L curve, an identical spot grid and an identical net cash for every
\* permutation of the legs of a portfolio (of legs the intake is to let in).
C4_OrderIndependent ==
    (Called /\ ValidLegs(call.legs)) =>
        \A p \in LegOrders(Len(call.legs)) :
            calculate_payoff(Permuted(call.legs, p),
                             bind_spot_range_max(call.spot_range_max))
            = Returned

\* C4, as the script has it: for every permutation of the legs
\* calculate_payoff returns an identical spot grid, and a P&L curve and a net
\* cash that are equal up to the rounding of their sums; they are identical
\* for a portfolio of at most two legs.
C4_OrderIndependentUpToRounding ==
    Called =>
        \A p \in LegOrders(Len(call.legs)) :
            LET r == calculate_payoff(Permuted(call.legs, p),
                                      bind_spot_range_max(call.spot_range_max))
            IN  /\ r.spots = Returned.spots
                /\ r.spots_end_rounding = Returned.spots_end_rounding
                /\ r.pnl = Returned.pnl
                /\ SameAmount(r.pnl_first, Returned.pnl_first)
                /\ SameAmount(r.net_cash, Returned.net_cash)
                /\ Len(call.legs) <= 2 => r = Returned

C4_Witness ==
    /\ Called
    /\ Len(call.legs) = 3
    /\ ValidLegs(call.legs)
    /\ \E i \in DOMAIN Returned.pnl : Returned.pnl[i] # Returned.pnl[1]
    /\ \E p \in LegOrders(3) :
          LET r == calculate_payoff(Permuted(call.legs, p),
                                    bind_spot_range_max(call.spot_range_max))
          IN  /\ r.net_cash # Returned.net_cash
              /\ r.pnl_first # Returned.pnl_first

\* C5: for a non-empty portfolio, every point of the P&L curve is the sum over
\* the legs of intrinsic * positionDirection * qty * 100 + netCashFlow at that
\* grid point, and the net cash is the sum of the legs' net cash flows; one
\* long call (qty 1, strike 100, price 2.00, fees 0.65) gives net cash -200.65
\* and 4799.35 at spot 150.
C5_PnlIsSumOfLegPnl ==
    (Called /\ call.legs # <<>>) =>
        /\ DOMAIN Returned.pnl = DOMAIN Returned.spots
        /\ \A i \in DOMAIN Returned.spots :
              Returned.pnl[i] = SumLegPnl(call.legs, Returned.spots[i])
        /\ Returned.net_cash.cents = Cents(SumNetCashFlow(call.legs, Len(call.legs)))
        /\ (call.legs = <<ExampleLongCall>>) =>
              /\ Returned.net_cash = float(Cents(-4013))
              /\ Returned.spots[num] = 150000 * Den
              /\ Returned.pnl[num] = 95987 * Den

C5_Witness ==
    /\ Called
    /\ call.legs = <<ExampleLongCall>>
    /\ Returned.pnl[num] = 95987 * Den

\* C6: whenever the portfolio is empty, at the start and after every reset,
\* the dashboard shows net cash 0 and plots and logs nothing, and
\* calculate_payoff returns for it net cash 0 and a curve that is zero at
\* each of the 1000 points of the domain, which is [0, 200] when no
\* spot_range_max is given.
C6_EmptyPortfolioIsZero ==
    legs = <<>> =>
        /\ IsZero(net_cash)
        /\ chart = NoChart
        /\ trade_log = <<>>
        /\ \A arg \in SpotRangeMaxArgs :
              LET r == calculate_payoff(legs, bind_spot_range_max(arg))
              IN  /\ IsZero(r.net_cash)
                  /\ Len(r.spots) = num
                  /\ Len(r.pnl) = num
                  /\ \A i \in 1..num : r.pnl[i] = 0
                  /\ r.spots[1] = 0
                  /\ StrictlyIncreasing(r.spots)
                  /\ arg = NoArg => r.spots[num] = 200000 * Den

C6_Witness ==
    /\ event = "reset"
    /\ legs = <<>>
    /\ curr_price > 0
    /\ IsZero(net_cash)
    /\ calculate_payoff(legs, default_spot_range_max).spots[num] = 200000 * Den

\* C7: a run whose quote retrieval fails keeps the session's price and the
\* value of the current-price input, leaves the portfolio as it is, and shows
\* the net cash, the chart and the trade log of that portfolio and price.
C7_QuoteFailureIsHarmless ==
    [][event' \in {"quote_empty", "quote_error"} =>
          /\ sidebar_error' # ""
          /\ ss_curr_price' = ss_curr_price
          /\ curr_price' = curr_price
          /\ legs' = legs
          /\ net_cash' = net_cash
          /\ chart' = chart
          /\ trade_log' = trade_log
          /\ (legs # <<>> => (chart' # NoChart /\ Len(trade_log') = Len(legs)))]_vars

C7_Witness ==
    /\ event = "quote_error"
    /\ ss_curr_price # Absent
    /\ curr_price # session_get(ss_curr_price)
    /\ legs # <<>>
    /\ chart # NoChart

\* C8: for a non-empty portfolio the grid computed without an override has
\* exactly 1000 points, is strictly increasing, starts at 0 and ends at
\* max strike * 1.5, and the P&L curve has as many points as the grid.
C8_GridWellFormed ==
    (legs # <<>> /\ chart # NoChart /\ ~chart[1].regrid) =>
        /\ Len(chart[1].spots) = 1000
        /\ Len(chart[1].pnl) = Len(chart[1].spots)
        /\ chart[1].spots[1] = 0
        /\ chart[1].spots[Len(chart[1].spots)]
             = MaxStrike(legs, Len(legs)) * 15 * Den
        /\ StrictlyIncreasing(chart[1].spots)

\* C9: with a non-empty portfolio (of legs the intake is to let in) the
\* plotted grid includes the current price: its last point, the double the
\* script computed, is >= curr_price
\* once the out-of-bounds price has triggered the recomputation, and the net
\* cash shown is that of the portfolio.
C9_GridIncludesCurrentPrice ==
    (legs # <<>> /\ chart # NoChart /\ ValidLegs(legs)) =>
        /\ LET last == chart[1].spots[Len(chart[1].spots)]
           IN  \/ last > curr_price * 10 * Den
               \/ /\ last = curr_price * 10 * Den
                  /\ chart[1].spots_end_rounding >= 0
        /\ net_cash.cents = Cents(SumNetCashFlow(legs, Len(legs)))

\* C10: a run that adds a leg appends exactly one leg and keeps every earlier
\* leg in its place, a reset empties the portfolio, and every other run
\* (quote retrieval, price or symbol edit, with their payoff and trade log) leaves the
\* portfolio as it is.
C10_PortfolioFrame ==
    [][CASE event' = "add_leg" ->
              /\ Len(legs') = Len(legs) + 1
              /\ \A i \in DOMAIN legs : legs'[i] = legs[i]
         [] event' = "reset" -> legs' = <<>>
         [] OTHER -> legs' = legs]_vars

C10_Witness ==
    /\ event = "add_leg"
    /\ Len(legs) = 2
    /\ legs[1] # legs[2]

====
